---- MODULE Spec2Model ----
(***************************************************************************)
(* A model of src/bounds.py (inkscape-pybounds): the BoundingBox class,    *)
(* the per-segment bounding-box functions and the path accumulator.        *)
(*                                                                         *)
(* Numbers.  The program computes with Python floats.  The model computes  *)
(* with exact rationals [n, d] in lowest terms with d > 0, so a division   *)
(* is a real division (not the identity, not an integer division) and a    *)
(* division by zero is an outcome of its own ("ZeroDivisionError"), as it  *)
(* is in Python.  Rounding error of the floats is outside the model.       *)
(***************************************************************************)
EXTENDS Integers, Sequences, FiniteSets, TLC

VARIABLES
    \* ---- a BoundingBox object under a sequence of method calls
    self,       \* the object's fields, or None before construction
    last,       \* the last call made on it: its name, argument and prior
                \* fields, and whether the object was constructed from
                \* x-values (y-values) given in descending order
    \* ---- BoundingBox.combine applied to three boxes
    abc,        \* the three boxes a, b, c
    step,       \* how many of the combine calls have been made
    out,        \* the boxes those calls produced
    \* ---- one call of quadratic_bounding_box
    qin,        \* its arguments p0, p1, p2, box
    qout,       \* its outcome, None before the call
    \* ---- one call of cubic_bounding_box
    cin,        \* its arguments p0, p1, p2, p3, box
    cout,       \* its outcome, None before the call
    \* ---- one call of elliptical_arc_bounding_box
    ain,        \* its arguments start, rx, ry, rotation, large_arc, sweep,
                \* end, box
    aout,       \* its outcome, Pending before the call
    \* ---- one call of path_bounding_box or object_bounding_box
    pin,        \* the call: which function, the node's tag, its parsed path
                \* data and transform, and the caller's box as passed in
    cbox,       \* the fields of the caller's box object (None if none given)
    pc,         \* where the call stands
    idx,        \* the position in parsed of the segment the loop is at
    current,    \* path_bounding_box's current
    objbox,     \* path_bounding_box's / object_bounding_box's objbox
    pres,       \* the outcome of the call, Pending until it ends
    \* ---- one call of elliptical_arc_bounding_box's contains_angle
    tin,        \* the sweep, start_angle and end_angle it reads and its
                \* argument t, and whether they are those of the arc call
    tout,       \* what it returned, Pending before the call
    \* ---- one call of draw_bounding_box
    din,        \* its arguments style and replace, and how many siblings
                \* precede and follow obj under its parent
    parent,     \* the children of obj's parent, in order
    boxobj,     \* the attributes of the new node, None before it is created
    dpc,        \* where the call stands
    dout        \* the outcome of the call, Pending until it ends

vars == <<self, last, abc, step, out, qin, qout, cin, cout, ain, aout,
          pin, cbox, pc, idx, current, objbox, pres,
          tin, tout, din, parent, boxobj, dpc, dout>>

\* the variables of the path call
pathvars == <<pin, cbox, pc, idx, current, objbox, pres>>

\* the variables of the contains_angle call and of the draw_bounding_box call
anglevars == <<tin, tout>>
drawvars == <<din, parent, boxobj, dpc, dout>>

---------------------------------------------------------------------------
(* Bounds of the model. *)

\* coordinates are drawn from 0..MaxCoord
MaxCoord == 2

\* the edges of the three boxes given to combine, and of a caller's existing
\* box, are drawn from 0..MaxEdge
MaxEdge == 1

\* a curve is sampled at t = k/NSamples, k = 0..NSamples
NSamples == 4

\* a path has at most MaxSegs segments after its initial MoveTo
MaxSegs == 3

\* at most MaxSiblings children of its parent precede the object drawn, and
\* at most MaxSiblings follow it
MaxSiblings == 2

---------------------------------------------------------------------------
(* Exact rational arithmetic standing for the float arithmetic. *)

Abs(i) == IF i < 0 THEN -i ELSE i

RECURSIVE GCD(_, _)
GCD(a, b) == IF b = 0 THEN a ELSE GCD(b, a % b)

\* the rational n/d (d # 0) in lowest terms with a positive denominator
Rat(n, d) ==
    LET g == GCD(Abs(n), Abs(d))
        s == IF d < 0 THEN -1 ELSE 1
    IN  [n |-> s * (n \div g), d |-> s * (d \div g)]

Q(i) == [n |-> i, d |-> 1]

QAdd(x, y) == Rat(x.n * y.d + y.n * x.d, x.d * y.d)
QSub(x, y) == Rat(x.n * y.d - y.n * x.d, x.d * y.d)
QMul(x, y) == Rat(x.n * y.n, x.d * y.d)
QNeg(x)    == [n |-> -x.n, d |-> x.d]
\* x / y; the caller has established y # 0
QDiv(x, y) == Rat(x.n * y.d, x.d * y.n)
QLt(x, y)  == x.n * y.d < y.n * x.d
QLe(x, y)  == x.n * y.d <= y.n * x.d
QIsZero(x) == x.n = 0
QAbs(x)    == IF x.n < 0 THEN QNeg(x) ELSE x

\* Python's min(x, y) and max(x, y)
QMin(x, y) == IF QLt(y, x) THEN y ELSE x
QMax(x, y) == IF QLt(x, y) THEN y ELSE x

\* the least and the greatest of a set of numbers
MinOf(S) == CHOOSE x \in S : \A y \in S : QLe(x, y)
MaxOf(S) == CHOOSE x \in S : \A y \in S : QLe(y, x)

\* Python's None
None == [kind |-> "None"]

Coords == {Q(i) : i \in 0..MaxCoord}
Points == {<<x, y>> : x \in Coords, y \in Coords}

---------------------------------------------------------------------------
(* class BoundingBox *)

\* a constructor that keeps the arguments in the order given
BoundingBox_Unsorted(x0, x1, y0, y1) ==
    [kind |-> "BoundingBox", left |-> x0, right |-> x1, bottom |-> y0, top |-> y1]

\* BoundingBox.__init__
BoundingBox(x0, x1, y0, y1) ==
    [kind |-> "BoundingBox",
     left |-> QMin(x0, x1), right |-> QMax(x0, x1),
     bottom |-> QMin(y0, y1), top |-> QMax(y0, y1)]

\* BoundingBox.contains
contains(b, point) ==
    IF QLt(point[1], b.left) \/ QLt(b.right, point[1]) THEN FALSE
    ELSE IF QLt(point[2], b.bottom) \/ QLt(b.top, point[2]) THEN FALSE
    ELSE TRUE

\* a contains_x that leaves the two edges out
contains_x_Strict(b, x) == IF QLe(x, b.left) \/ QLe(b.right, x) THEN FALSE ELSE TRUE

\* BoundingBox.contains_x
contains_x(b, x) == IF QLt(x, b.left) \/ QLt(b.right, x) THEN FALSE ELSE TRUE

\* BoundingBox.contains_y
contains_y(b, y) == IF QLt(y, b.bottom) \/ QLt(b.top, y) THEN FALSE ELSE TRUE

\* a combine whose right edge is computed from the wrong field of self
combine_WrongField(b, box) ==
    [b EXCEPT !.left = QMin(b.left, box.left),
              !.right = QMax(b.left, box.right),
              !.bottom = QMin(b.bottom, box.bottom),
              !.top = QMax(b.top, box.top)]

\* BoundingBox.combine: the fields of the object after b.combine(box).
\* (The method itself returns nothing; see path_bounding_box.)
combine(b, box) ==
    [b EXCEPT !.left = QMin(b.left, box.left),
              !.right = QMax(b.right, box.right),
              !.bottom = QMin(b.bottom, box.bottom),
              !.top = QMax(b.top, box.top)]

\* an extend that moves the left and bottom edges to the point
extend_Assign(b, point) ==
    [b EXCEPT !.left = point[1],
              !.right = QMax(b.right, point[1]),
              !.bottom = point[2],
              !.top = QMax(b.top, point[2])]

\* BoundingBox.extend: the fields after b.extend(point)
extend(b, point) ==
    [b EXCEPT !.left = QMin(b.left, point[1]),
              !.right = QMax(b.right, point[1]),
              !.bottom = QMin(b.bottom, point[2]),
              !.top = QMax(b.top, point[2])]

\* BoundingBox.extend_x: the fields after b.extend_x(x)
extend_x(b, x) ==
    [b EXCEPT !.left = QMin(b.left, x), !.right = QMax(b.right, x)]

\* BoundingBox.extend_y: the fields after b.extend_y(y)
extend_y(b, y) ==
    [b EXCEPT !.bottom = QMin(b.bottom, y), !.top = QMax(b.top, y)]

\* every box the constructor yields from coordinates of the grid
Boxes == {BoundingBox(x0, x1, y0, y1) : x0 \in Coords, x1 \in Coords,
                                        y0 \in Coords, y1 \in Coords}

\* the boxes with edges in 0..MaxEdge
EdgeCoords == {Q(i) : i \in 0..MaxEdge}
EdgeBoxes == {BoundingBox(x0, x1, y0, y1) : x0 \in EdgeCoords, x1 \in EdgeCoords,
                                            y0 \in EdgeCoords, y1 \in EdgeCoords}

\* the outcome of a call: a returned value (which may be None), or the
\* exception it raised; Pending while the call has not ended
Return(v) == [status |-> "return", value |-> v]
Raise(e)  == [status |-> "raise", error |-> e]
Pending   == [status |-> "pending"]

---------------------------------------------------------------------------
(* quadratic_bounding_box *)

\* p0*(1 - t)**2 + p1*2*(1-t)*t + p2*t**2
quadratic_value(p0, p1, p2, t) ==
    LET u == QSub(Q(1), t)
    IN  QAdd(QAdd(QMul(p0, QMul(u, u)),
                  QMul(QMul(QMul(p1, Q(2)), u), t)),
             QMul(p2, QMul(t, t)))

\* an extremum step that takes t from the second difference, q1 / (q0 - q1)
quadratic_extrema_WrongT(p0, p1, p2) ==
    LET q0 == QSub(p1, p0)
        q1 == QSub(p2, p1)
        den == QSub(q0, q1)
    IN  IF QIsZero(den) THEN Raise("ZeroDivisionError")
        ELSE LET t == QDiv(q1, den)
             IN  IF QLt(Q(0), t) /\ QLt(t, Q(1))
                 THEN Return(<<quadratic_value(p0, p1, p2, t)>>)
                 ELSE Return(<< >>)

\* The extremum step of quadratic_bounding_box on one axis (p0, p1, p2 are
\* the coordinates on that axis): the values the box is extended with, or
\* the ZeroDivisionError of q0 / (q0 - q1).
quadratic_extrema(p0, p1, p2) ==
    LET q0 == QSub(p1, p0)
        q1 == QSub(p2, p1)
        den == QSub(q0, q1)
    IN  IF QIsZero(den) THEN Raise("ZeroDivisionError")
        ELSE LET t == QDiv(q0, den)
             IN  IF QLt(Q(0), t) /\ QLt(t, Q(1))
                 THEN Return(<<quadratic_value(p0, p1, p2, t)>>)
                 ELSE Return(<< >>)

\* b after b.extend_x(v) for each v of vals in turn
RECURSIVE extend_x_all(_, _)
extend_x_all(b, vals) ==
    IF vals = << >> THEN b ELSE extend_x_all(extend_x(b, Head(vals)), Tail(vals))

\* b after b.extend_y(v) for each v of vals in turn
RECURSIVE extend_y_all(_, _)
extend_y_all(b, vals) ==
    IF vals = << >> THEN b ELSE extend_y_all(extend_y(b, Head(vals)), Tail(vals))

\* quadratic_bounding_box(p0, p1, p2, box): the box returned (the caller's
\* box object, mutated, when one was given), or the exception raised
quadratic_bounding_box(p0, p1, p2, box) ==
    LET seeded == IF box = None
                  THEN BoundingBox(p0[1], p2[1], p0[2], p2[2])
                  ELSE extend(extend(box, p0), p2)
        cx == contains_x(seeded, p1[1])
        cy == contains_y(seeded, p1[2])
        ex == IF ~cx THEN quadratic_extrema(p0[1], p1[1], p2[1]) ELSE Return(<< >>)
        ey == IF ~cy THEN quadratic_extrema(p0[2], p1[2], p2[2]) ELSE Return(<< >>)
    IN  IF ex.status = "raise" THEN ex
        ELSE IF ey.status = "raise" THEN ey
        ELSE Return(extend_y_all(extend_x_all(seeded, ex.value), ey.value))

---------------------------------------------------------------------------
(* cubic_bounding_box *)

\* whether the integer i is a perfect square
IsSquare(i) == i >= 0 /\ \E r \in 0..i : r * r = i

\* math.sqrt on a rational whose root is rational (the inputs of the model
\* are chosen so that every root taken is)
QSqrt(x) ==
    [n |-> CHOOSE r \in 0..x.n : r * r = x.n,
     d |-> CHOOSE r \in 1..x.d : r * r = x.d]

\* p0*(1-t)**3 + 3*p1*t*(1-t)**2 + 3*p2*(1-t)*t**2 + p3*t**3
bezier(p0, p1, p2, p3, t) ==
    LET u == QSub(Q(1), t)
    IN  QAdd(QAdd(QMul(p0, QMul(u, QMul(u, u))),
                  QMul(QMul(QMul(Q(3), p1), t), QMul(u, u))),
             QAdd(QMul(QMul(QMul(Q(3), p2), u), QMul(t, t)),
                  QMul(p3, QMul(t, QMul(t, t)))))

\* the coefficients of extrema_values (a is twice the leading coefficient
\* of the derivative) and its discriminant
cubic_a(p0, p1, p2, p3) ==
    QAdd(QSub(QMul(Q(6), QSub(p1, p0)), QMul(Q(12), QSub(p2, p1))),
         QMul(Q(6), QSub(p3, p2)))
cubic_b(p0, p1, p2, p3) ==
    QAdd(QMul(Q(-6), QSub(p1, p0)), QMul(Q(6), QSub(p2, p1)))
cubic_c(p0, p1, p2, p3) == QMul(Q(3), QSub(p1, p0))
cubic_discriminant(p0, p1, p2, p3) ==
    LET a == cubic_a(p0, p1, p2, p3)
        b == cubic_b(p0, p1, p2, p3)
        c == cubic_c(p0, p1, p2, p3)
    IN  QSub(QMul(b, b), QMul(QMul(Q(2), a), c))

\* the values bezier(t) of those of the given ts that lie in 0 < t < 1
RECURSIVE bezier_inside(_, _, _, _, _)
bezier_inside(p0, p1, p2, p3, ts) ==
    IF ts = << >> THEN << >>
    ELSE LET t == Head(ts)
             rest == bezier_inside(p0, p1, p2, p3, Tail(ts))
         IN  IF QLt(Q(0), t) /\ QLt(t, Q(1))
             THEN <<bezier(p0, p1, p2, p3, t)>> \o rest
             ELSE rest

\* cubic_bounding_box.extrema_values on one axis: the list of extrema
\* values, or the ZeroDivisionError of -b / a
extrema_values(p0, p1, p2, p3) ==
    LET a == cubic_a(p0, p1, p2, p3)
        b == cubic_b(p0, p1, p2, p3)
        discriminant == cubic_discriminant(p0, p1, p2, p3)
    IN  IF QLt(discriminant, Q(0)) THEN Return(<< >>)
        ELSE IF QIsZero(a) THEN Raise("ZeroDivisionError")
        ELSE LET ba == QDiv(QNeg(b), a)
             IN  IF QIsZero(discriminant)
                 THEN Return(bezier_inside(p0, p1, p2, p3, <<ba>>))
                 ELSE LET root == QDiv(QSqrt(discriminant), a)
                      IN  Return(bezier_inside(p0, p1, p2, p3,
                                               <<QAdd(ba, root), QSub(ba, root)>>))

\* cubic_bounding_box(p0, p1, p2, p3, box): the box returned (the caller's
\* box object, mutated, when one was given), or the exception raised
cubic_bounding_box(p0, p1, p2, p3, box) ==
    LET seeded == IF box = None
                  THEN BoundingBox(p0[1], p3[1], p0[2], p3[2])
                  ELSE extend(extend(box, p0), p3)
        cx == contains_x(seeded, p1[1]) /\ contains_x(seeded, p2[1])
        cy == contains_y(seeded, p1[2]) /\ contains_y(seeded, p2[2])
        ex == IF ~cx THEN extrema_values(p0[1], p1[1], p2[1], p3[1]) ELSE Return(<< >>)
        ey == IF ~cy THEN extrema_values(p0[2], p1[2], p2[2], p3[2]) ELSE Return(<< >>)
    IN  IF ex.status = "raise" THEN ex
        ELSE IF ey.status = "raise" THEN ey
        ELSE Return(extend_y_all(extend_x_all(seeded, ex.value), ey.value))

\* whether every square root extrema_values would take on this axis is
\* rational
RootIsRational(p0, p1, p2, p3) ==
    LET d == cubic_discriminant(p0, p1, p2, p3)
    IN  QLe(d, Q(0)) \/ (IsSquare(d.n) /\ IsSquare(d.d))

---------------------------------------------------------------------------
(* elliptical_arc_bounding_box *)

\* An angle in radians, held exactly: the angle atan2(y, x) of the vector
\* (x, y), taken in (-pi, pi], plus turn full turns.
Angle(turn, x, y) == [turn |-> turn, x |-> x, y |-> y]

\* math.pi, and the product 2*pi (2.0*pi) the code forms from it
pi == Angle(0, Q(-1), Q(0))
TwoPi == Angle(1, Q(1), Q(0))

\* where atan2(a.y, a.x) lies: 0 in (-pi, 0), 1 at 0, 2 in (0, pi), 3 at pi
PRank(a) ==
    IF a.y.n < 0 THEN 0
    ELSE IF a.y.n > 0 THEN 2
    ELSE IF a.x.n < 0 THEN 3
    ELSE 1

\* atan2(a.y, a.x) < atan2(b.y, b.x)
PLt(a, b) ==
    \/ PRank(a) < PRank(b)
    \/ PRank(a) = PRank(b) /\ QLt(QMul(a.y, b.x), QMul(a.x, b.y))

\* the float comparisons a < b and a <= b of two angles
AngLt(a, b) == a.turn < b.turn \/ (a.turn = b.turn /\ PLt(a, b))
AngLe(a, b) == ~AngLt(b, a)

\* the float difference b - a of two angles: the angle of the vector
\* (cos, sin) of the difference, and the full turns that make up the rest
AngSub(b, a) ==
    LET g == Angle(0, QAdd(QMul(a.x, b.x), QMul(a.y, b.y)),
                      QSub(QMul(a.x, b.y), QMul(a.y, b.x)))
        carry == IF ~PLt(b, a)
                 THEN (IF PRank(g) = 0 THEN 1 ELSE 0)
                 ELSE (IF PRank(g) = 0 THEN 0 ELSE -1)
    IN  Angle(b.turn - a.turn + carry, g.x, g.y)

\* -a, and the float sum a + b
AngNeg(a) ==
    IF PRank(a) = 3 THEN Angle(-a.turn - 1, a.x, a.y)
    ELSE Angle(-a.turn, a.x, QNeg(a.y))
AngAdd(a, b) == AngSub(a, AngNeg(b))

\* math.atan2(y, x)
atan2(y, x) == Angle(0, x, y)

\* math.radians, on the rotations whose sine and cosine are rational
radians(deg) ==
    CASE deg = Q(0) -> Angle(0, Q(1), Q(0))
      [] deg = Q(90) -> Angle(0, Q(0), Q(1))
      [] deg = Q(180) -> pi

\* math.sin, math.cos and math.tan of an angle (tan where cos is not 0)
sin(a) == QDiv(a.y, QSqrt(QAdd(QMul(a.x, a.x), QMul(a.y, a.y))))
cos(a) == QDiv(a.x, QSqrt(QAdd(QMul(a.x, a.x), QMul(a.y, a.y))))
tan(a) == QDiv(a.y, a.x)

\* elliptical_arc_bounding_box, lines 358-394: the radii made positive, the
\* sine and cosine of the rotation, the midpoint transform and the
\* numerator of the root
arc_numerator(start, rx, ry, rotation, end) ==
    LET rx_pos == IF QLt(rx, Q(0)) THEN QNeg(rx) ELSE rx
        ry_pos == IF QLt(ry, Q(0)) THEN QNeg(ry) ELSE ry
        sin_rotation == sin(radians(rotation))
        cos_rotation == cos(radians(rotation))
        x1 == start[1]
        y1 == start[2]
        x2 == end[1]
        y2 == end[2]
        xm == QAdd(QDiv(QMul(cos_rotation, QSub(x1, x2)), Q(2)),
                   QDiv(QMul(sin_rotation, QSub(y1, y2)), Q(2)))
        ym == QAdd(QNeg(QDiv(QMul(sin_rotation, QSub(x1, x2)), Q(2))),
                   QDiv(QMul(cos_rotation, QSub(y1, y2)), Q(2)))
        rx2 == QMul(rx_pos, rx_pos)
        ry2 == QMul(ry_pos, ry_pos)
        xm2 == QMul(xm, xm)
        ym2 == QMul(ym, ym)
    IN  [rx |-> rx_pos, ry |-> ry_pos,
         sin_rotation |-> sin_rotation, cos_rotation |-> cos_rotation,
         xm |-> xm, ym |-> ym, rx2 |-> rx2, ry2 |-> ry2, xm2 |-> xm2, ym2 |-> ym2,
         numerator |-> QSub(QSub(QMul(rx2, ry2), QMul(rx2, ym2)), QMul(ry2, xm2))]

\* elliptical_arc_bounding_box, lines 364-369 and 396-420: the flags as
\* booleans (True is 1), the radii scaled up where they cannot reach from
\* start to end, and the centre
arc_centre(start, rx, ry, rotation, large_arc, sweep, end) ==
    LET large == IF large_arc # 0 THEN 1 ELSE large_arc
        swp == IF sweep # 0 THEN 1 ELSE sweep
        centre(m, rx_fin, ry_fin, root) ==
            LET cxprime == QDiv(QMul(QMul(root, rx_fin), m.ym), ry_fin)
                cyprime == QNeg(QDiv(QMul(QMul(root, ry_fin), m.xm), rx_fin))
            IN  [rx |-> rx_fin, ry |-> ry_fin, sweep |-> swp,
                 sin_rotation |-> m.sin_rotation, cos_rotation |-> m.cos_rotation,
                 xm |-> m.xm, ym |-> m.ym, cxprime |-> cxprime, cyprime |-> cyprime,
                 cx |-> QAdd(QSub(QMul(m.cos_rotation, cxprime),
                                  QMul(m.sin_rotation, cyprime)),
                             QDiv(QAdd(start[1], end[1]), Q(2))),
                 cy |-> QAdd(QAdd(QMul(m.sin_rotation, cxprime),
                                  QMul(m.cos_rotation, cyprime)),
                             QDiv(QAdd(start[2], end[2]), Q(2)))]
        scaled(m, s) == centre(m, QMul(m.rx, s), QMul(m.ry, s), Q(0))
        rooted(m, root) ==
            centre(m, m.rx, m.ry, IF large = swp THEN QMul(Q(-1), root) ELSE root)
        radii(m) ==
            IF QLt(m.numerator, Q(0))
            THEN scaled(m, QSqrt(QSub(Q(1), QDiv(m.numerator, QMul(m.rx2, m.ry2)))))
            ELSE rooted(m, QSqrt(QDiv(m.numerator,
                                      QAdd(QMul(m.rx2, m.ym2), QMul(m.ry2, m.xm2)))))
    IN  radii(arc_numerator(start, rx, ry, rotation, end))

\* elliptical_arc_bounding_box.angle_between_vectors
angle_between_vectors(a, b) ==
    LET atana == atan2(a[2], a[1])
        atanb == atan2(b[2], b[1])
    IN  IF AngLe(atana, atanb) THEN AngSub(atanb, atana)
        ELSE AngSub(TwoPi, AngSub(atana, atanb))

\* elliptical_arc_bounding_box, lines 430-454, from the values c of lines
\* 358-420: theta1 and dtheta, and the start and end angles they become
arc_angles(c) ==
    LET zero == Angle(0, Q(1), Q(0))
        ends(theta1, dtheta, start_angle, theta2) ==
            [theta1 |-> theta1, dtheta |-> dtheta, start_angle |-> start_angle,
             end_angle |-> IF AngLt(pi, theta2) THEN AngSub(theta2, TwoPi)
                           ELSE IF AngLt(theta2, AngNeg(pi)) THEN AngAdd(theta2, TwoPi)
                           ELSE theta2]
        starts(theta1, dtheta, start_angle) ==
            ends(theta1, dtheta, start_angle, AngAdd(start_angle, dtheta))
        sweeps(theta1, between) ==
            starts(theta1,
                   IF c.sweep = 0 /\ AngLt(zero, between) THEN AngSub(between, TwoPi)
                   ELSE IF c.sweep # 0 /\ AngLt(between, zero) THEN AngAdd(between, TwoPi)
                   ELSE between,
                   IF AngLt(pi, theta1) THEN AngSub(theta1, TwoPi) ELSE theta1)
        vectors(u, v) ==
            sweeps(angle_between_vectors(<<Q(1), Q(0)>>, u), angle_between_vectors(u, v))
    IN  vectors(<<QDiv(QSub(c.xm, c.cxprime), c.rx), QDiv(QSub(c.ym, c.cyprime), c.ry)>>,
                <<QDiv(QSub(QNeg(c.xm), c.cxprime), c.rx),
                  QDiv(QSub(QNeg(c.ym), c.cyprime), c.ry)>>)

\* a contains_angle that takes every range for one that does not wrap
contains_angle_NoWrap(t, sweep, start_angle, end_angle) ==
    IF sweep # 0
    THEN ~(AngLt(t, start_angle) \/ AngLt(end_angle, t))
    ELSE ~(AngLt(start_angle, t) \/ AngLt(t, end_angle))

\* elliptical_arc_bounding_box.contains_angle; sweep, start_angle and
\* end_angle are the variables of the enclosing call it reads
contains_angle(t, sweep, start_angle, end_angle) ==
    IF sweep # 0
    THEN IF AngLt(start_angle, end_angle)
         THEN ~(AngLt(t, start_angle) \/ AngLt(end_angle, t))
         ELSE ~(AngLt(t, start_angle) /\ AngLt(end_angle, t))
    ELSE IF AngLt(end_angle, start_angle)
         THEN ~(AngLt(start_angle, t) \/ AngLt(t, end_angle))
         ELSE ~(AngLt(start_angle, t) /\ AngLt(t, end_angle))

\* lines 469-481: xangles and yangles, the angles of the x extrema and of
\* the y extrema of the ellipse
extrema_angles(rx, ry, rotation) ==
    LET thetax == atan2(QMul(QNeg(ry), tan(radians(rotation))), rx)
        thetay == atan2(ry, QMul(rx, tan(radians(rotation))))
        zero == Angle(0, Q(1), Q(0))
    IN  [xangles |-> IF AngLt(thetax, zero) THEN <<thetax, AngAdd(thetax, pi)>>
                     ELSE <<thetax, AngSub(thetax, pi)>>,
         yangles |-> IF AngLt(thetay, zero) THEN <<thetay, AngAdd(thetay, pi)>>
                     ELSE <<thetay, AngSub(thetay, pi)>>]

\* the lambdas fx and fy, lines 484-485, of the call with the values c
fx(c, t) ==
    QSub(QAdd(c.cx, QMul(QMul(c.rx, cos(t)), c.cos_rotation)),
         QMul(QMul(c.ry, sin(t)), c.sin_rotation))
fy(c, t) ==
    QAdd(QAdd(c.cy, QMul(QMul(c.rx, cos(t)), c.sin_rotation)),
         QMul(QMul(c.ry, sin(t)), c.cos_rotation))

\* an arc that extends the box with every extremum of the whole ellipse
elliptical_arc_extrema_Unswept(start, rx, ry, rotation, large_arc, sweep, end, box) ==
    LET extended(c, xs, ys) ==
            extend_y_all(extend_x_all(box, [k \in 1..Len(xs) |-> fx(c, xs[k])]),
                         [k \in 1..Len(ys) |-> fy(c, ys[k])])
        extrema(c, a, e) == extended(c, e.xangles, e.yangles)
        angles(c) == extrema(c, arc_angles(c), extrema_angles(c.rx, c.ry, rotation))
    IN  angles(arc_centre(start, rx, ry, rotation, large_arc, sweep, end))

\* elliptical_arc_bounding_box, lines 358-496: the box, which holds the end
\* points, after it is extended with the extrema the arc sweeps over
elliptical_arc_extrema(start, rx, ry, rotation, large_arc, sweep, end, box) ==
    LET extended(c, xs, ys) ==
            extend_y_all(extend_x_all(box, [k \in 1..Len(xs) |-> fx(c, xs[k])]),
                         [k \in 1..Len(ys) |-> fy(c, ys[k])])
        extrema(c, a, e) ==
            LET swept(t) == contains_angle(t, c.sweep, a.start_angle, a.end_angle)
            IN  extended(c, SelectSeq(e.xangles, swept), SelectSeq(e.yangles, swept))
        angles(c) == extrema(c, arc_angles(c), extrema_angles(c.rx, c.ry, rotation))
    IN  angles(arc_centre(start, rx, ry, rotation, large_arc, sweep, end))

\* an arc function that puts the end points in the box before it compares
\* them
elliptical_arc_bounding_box_SeedFirst(start, rx, ry, rotation, large_arc, sweep, end, box) ==
    LET seeded == IF box = None
                  THEN BoundingBox(start[1], end[1], start[2], end[2])
                  ELSE extend(extend(box, start), end)
    IN  CASE start = end -> Return(seeded)
          [] start # end /\ (QIsZero(rx) \/ QIsZero(ry)) -> Return(seeded)
          [] OTHER -> Return(elliptical_arc_extrema(start, rx, ry, rotation,
                                                    large_arc, sweep, end, seeded))

\* elliptical_arc_bounding_box(start, rx, ry, rotation, large_arc, sweep,
\* end, box): the arc that is not drawn (start == end), the arc that is a
\* straight line (a zero radius) and the arc proper
elliptical_arc_bounding_box(start, rx, ry, rotation, large_arc, sweep, end, box) ==
    LET seeded == IF box = None
                  THEN BoundingBox(start[1], end[1], start[2], end[2])
                  ELSE extend(extend(box, start), end)
    IN  CASE start = end -> Return(box)
          [] start # end /\ (QIsZero(rx) \/ QIsZero(ry)) -> Return(seeded)
          [] OTHER -> Return(elliptical_arc_extrema(start, rx, ry, rotation,
                                                    large_arc, sweep, end, seeded))

---------------------------------------------------------------------------
(* SpecBox: one BoundingBox object, constructed and then called upon in    *)
(* any order with any arguments.                                           *)

NoCall == [op |-> "none"]

CombineIdle == abc = None /\ step = 0 /\ out = None
QuadIdle == qin = None /\ qout = None
CubicIdle == cin = None /\ cout = None
ArcIdle == ain = None /\ aout = Pending
PathIdle ==
    /\ pin = None /\ cbox = None /\ pc = "idle" /\ idx = 0
    /\ current = None /\ objbox = None /\ pres = Pending
AngleIdle == tin = None /\ tout = Pending
DrawIdle ==
    /\ din = None /\ parent = << >> /\ boxobj = None /\ dpc = "idle"
    /\ dout = Pending

InitBox ==
    /\ self = None /\ last = NoCall
    /\ CombineIdle /\ QuadIdle /\ CubicIdle /\ ArcIdle /\ PathIdle
    /\ AngleIdle /\ DrawIdle

\* b = BoundingBox(x0, x1, y0, y1)
Construct ==
    /\ self = None
    /\ \E x0 \in Coords, x1 \in Coords, y0 \in Coords, y1 \in Coords :
         /\ self' = BoundingBox(x0, x1, y0, y1)
         /\ last' = [op |-> "__init__", arg |-> <<x0, x1, y0, y1>>, pre |-> None,
                    ctor |-> [xdesc |-> QLt(x1, x0), ydesc |-> QLt(y1, y0)]]
    /\ UNCHANGED <<abc, step, out, qin, qout, cin, cout, ain, aout, pathvars, anglevars, drawvars>>

\* b.combine(box), box another constructed BoundingBox
CallCombine ==
    /\ self # None
    /\ \E box \in Boxes :
         /\ self' = combine(self, box)
         /\ last' = [op |-> "combine", arg |-> box, pre |-> self, ctor |-> last.ctor]
    /\ UNCHANGED <<abc, step, out, qin, qout, cin, cout, ain, aout, pathvars, anglevars, drawvars>>

\* b.extend(point)
CallExtend ==
    /\ self # None
    /\ \E point \in Points :
         /\ self' = extend(self, point)
         /\ last' = [op |-> "extend", arg |-> point, pre |-> self, ctor |-> last.ctor]
    /\ UNCHANGED <<abc, step, out, qin, qout, cin, cout, ain, aout, pathvars, anglevars, drawvars>>

\* b.extend_x(x)
CallExtendX ==
    /\ self # None
    /\ \E x \in Coords :
         /\ self' = extend_x(self, x)
         /\ last' = [op |-> "extend_x", arg |-> x, pre |-> self, ctor |-> last.ctor]
    /\ UNCHANGED <<abc, step, out, qin, qout, cin, cout, ain, aout, pathvars, anglevars, drawvars>>

\* b.extend_y(y)
CallExtendY ==
    /\ self # None
    /\ \E y \in Coords :
         /\ self' = extend_y(self, y)
         /\ last' = [op |-> "extend_y", arg |-> y, pre |-> self, ctor |-> last.ctor]
    /\ UNCHANGED <<abc, step, out, qin, qout, cin, cout, ain, aout, pathvars, anglevars, drawvars>>

NextBox == Construct \/ CallCombine \/ CallExtend \/ CallExtendX \/ CallExtendY

SpecBox == InitBox /\ [][NextBox]_vars

\* right - left and top - bottom
Width(b)  == QSub(b.right, b.left)
Height(b) == QSub(b.top, b.bottom)

\* C5: every BoundingBox is normalized in every reachable state: after
\* construction from two x-values and two y-values in any order and after any
\* sequence of combine, extend, extend_x and extend_y calls,
\* left <= right and bottom <= top.
C5_Normalized ==
    self # None => QLe(self.left, self.right) /\ QLe(self.bottom, self.top)

\* a box built from x-values and y-values given in descending order has since
\* been grown by one of the four mutating calls
C5_Witness ==
    /\ last.op \in {"combine", "extend", "extend_x", "extend_y"}
    /\ self # last.pre
    /\ last.ctor.xdesc /\ last.ctor.ydesc
    /\ QLt(self.left, self.right) /\ QLt(self.bottom, self.top)

\* C7: b.extend(p) never decreases right-left or top-bottom, no edge moves
\* inward, and afterwards b.contains(p) is true (edges inclusive);
\* extend_x(x) changes only left/right and extend_y(y) only bottom/top.
C7_ExtendGrows ==
    /\ last.op = "extend" =>
          /\ QLe(Width(last.pre), Width(self))
          /\ QLe(Height(last.pre), Height(self))
          /\ QLe(self.left, last.pre.left) /\ QLe(last.pre.right, self.right)
          /\ QLe(self.bottom, last.pre.bottom) /\ QLe(last.pre.top, self.top)
          /\ contains(self, last.arg)
    /\ last.op = "extend_x" =>
          /\ self.bottom = last.pre.bottom /\ self.top = last.pre.top
          /\ QLe(self.left, last.pre.left) /\ QLe(last.pre.right, self.right)
          /\ contains_x(self, last.arg)
    /\ last.op = "extend_y" =>
          /\ self.left = last.pre.left /\ self.right = last.pre.right
          /\ QLe(self.bottom, last.pre.bottom) /\ QLe(last.pre.top, self.top)
          /\ contains_y(self, last.arg)

\* extend was called with a point outside the box, which lies on its new edge
C7_Witness ==
    /\ last.op = "extend"
    /\ ~contains(last.pre, last.arg)
    /\ self.right = last.arg[1] /\ QLt(last.pre.right, self.right)
    /\ self.bottom = last.arg[2] /\ QLt(self.bottom, last.pre.bottom)

---------------------------------------------------------------------------
(* SpecCombine: BoundingBox.combine applied to three boxes a, b, c.  Each  *)
(* call is made on a fresh copy of its receiver, so that the calls do not  *)
(* see one another's mutations.                                            *)

BoxIdle == self = None /\ last = NoCall

InitCombine ==
    /\ BoxIdle /\ QuadIdle /\ CubicIdle /\ ArcIdle /\ PathIdle
    /\ AngleIdle /\ DrawIdle
    /\ abc \in [a : EdgeBoxes, b : EdgeBoxes, c : EdgeBoxes]
    /\ step = 0
    /\ out = [ab |-> None, ba |-> None, ab_c |-> None, bc |-> None,
              a_bc |-> None, aa |-> None]

\* ab = copy(a); ab.combine(b)
CombineAB ==
    /\ abc # None /\ step = 0
    /\ out' = [out EXCEPT !.ab = combine(abc.a, abc.b)]
    /\ step' = 1
    /\ UNCHANGED <<self, last, abc, qin, qout, cin, cout, ain, aout, pathvars, anglevars, drawvars>>

\* ba = copy(b); ba.combine(a)
CombineBA ==
    /\ step = 1
    /\ out' = [out EXCEPT !.ba = combine(abc.b, abc.a)]
    /\ step' = 2
    /\ UNCHANGED <<self, last, abc, qin, qout, cin, cout, ain, aout, pathvars, anglevars, drawvars>>

\* ab_c = copy(ab); ab_c.combine(c)
CombineAB_C ==
    /\ step = 2
    /\ out' = [out EXCEPT !.ab_c = combine(out.ab, abc.c)]
    /\ step' = 3
    /\ UNCHANGED <<self, last, abc, qin, qout, cin, cout, ain, aout, pathvars, anglevars, drawvars>>

\* bc = copy(b); bc.combine(c)
CombineBC ==
    /\ step = 3
    /\ out' = [out EXCEPT !.bc = combine(abc.b, abc.c)]
    /\ step' = 4
    /\ UNCHANGED <<self, last, abc, qin, qout, cin, cout, ain, aout, pathvars, anglevars, drawvars>>

\* a_bc = copy(a); a_bc.combine(bc)
CombineA_BC ==
    /\ step = 4
    /\ out' = [out EXCEPT !.a_bc = combine(abc.a, out.bc)]
    /\ step' = 5
    /\ UNCHANGED <<self, last, abc, qin, qout, cin, cout, ain, aout, pathvars, anglevars, drawvars>>

\* aa = a; aa.combine(aa): the receiver is its own argument.  Each of the
\* four assignments of combine reads only the field it writes, so the
\* aliasing does not change what is read.
CombineAA ==
    /\ step = 5
    /\ out' = [out EXCEPT !.aa = combine(abc.a, abc.a)]
    /\ step' = 6
    /\ UNCHANGED <<self, last, abc, qin, qout, cin, cout, ain, aout, pathvars, anglevars, drawvars>>

NextCombine ==
    CombineAB \/ CombineBA \/ CombineAB_C \/ CombineBC \/ CombineA_BC \/ CombineAA

SpecCombine == InitCombine /\ [][NextCombine]_vars

\* C6: combine is commutative, associative and idempotent on the box value:
\* a.combine(b) leaves a with the edges b.combine(a) leaves b with; combining
\* (a with b) with c gives the edges of combining a with (b with c); and
\* a.combine(a) leaves a's four edges unchanged.
C6_CombineAlgebra ==
    /\ step >= 2 => out.ab = out.ba
    /\ step >= 5 => out.ab_c = out.a_bc
    /\ step >= 6 => out.aa = abc.a

\* all the calls were made on three different boxes, and each merge moved
\* an edge
C6_Witness ==
    /\ step = 6
    /\ abc.a # abc.b /\ abc.b # abc.c /\ abc.a # abc.c
    /\ out.ab # abc.a /\ out.ab # abc.b
    /\ out.ab_c # out.ab /\ out.ab_c # abc.c

---------------------------------------------------------------------------
(* SpecQuad: one call of quadratic_bounding_box on points of the grid,     *)
(* with no box or with an existing one, and on the documented scenario.    *)

\* p0=(0,0), p1=(2,2), p2=(4,0), no existing box
QuadScenario ==
    [p0 |-> <<Q(0), Q(0)>>, p1 |-> <<Q(2), Q(2)>>, p2 |-> <<Q(4), Q(0)>>,
     box |-> None]

QuadInputs ==
    [p0 : Points, p1 : Points, p2 : Points, box : {None} \cup EdgeBoxes]
        \cup {QuadScenario}

InitQuad ==
    /\ BoxIdle /\ CombineIdle /\ CubicIdle /\ ArcIdle /\ PathIdle
    /\ AngleIdle /\ DrawIdle
    /\ qin \in QuadInputs
    /\ qout = None

\* qout = quadratic_bounding_box(p0, p1, p2, box)
CallQuadratic ==
    /\ qin # None /\ qout = None
    /\ qout' = quadratic_bounding_box(qin.p0, qin.p1, qin.p2, qin.box)
    /\ UNCHANGED <<self, last, abc, step, out, qin, cin, cout, ain, aout, pathvars, anglevars, drawvars>>

NextQuad == CallQuadratic

SpecQuad == InitQuad /\ [][NextQuad]_vars

SampleTs == {Rat(k, NSamples) : k \in 0..NSamples}

\* the point of the curve at parameter t
QuadCurvePoint(p0, p1, p2, t) ==
    <<quadratic_value(p0[1], p1[1], p2[1], t), quadratic_value(p0[2], p1[2], p2[2], t)>>

\* C8: for every quadratic segment (p0, p1, p2), with or without an existing
\* box, quadratic_bounding_box completes without error and the returned box
\* contains the curve point at every sampled t in [0,1]; for p0=(0,0),
\* p1=(2,2), p2=(4,0) and no box it is exactly left=0, right=4, bottom=0, top=1.
C8_QuadraticBox ==
    qout # None =>
        /\ qout.status = "return"
        /\ qout.value.kind = "BoundingBox"
        /\ \A t \in SampleTs :
              contains(qout.value, QuadCurvePoint(qin.p0, qin.p1, qin.p2, t))
        /\ qin = QuadScenario =>
              qout.value = BoundingBox(Q(0), Q(4), Q(0), Q(1))

\* the call returned for a curve whose control point lay outside the seeded
\* box on both axes, and whose extremum moved an edge between grid lines
C8_Witness ==
    /\ qout # None /\ qout.status = "return"
    /\ qin.box # None
    /\ ~contains_x(extend(extend(qin.box, qin.p0), qin.p2), qin.p1[1])
    /\ ~contains_y(extend(extend(qin.box, qin.p0), qin.p2), qin.p1[2])
    /\ qout.value.right.d # 1
    /\ qout.value.top.d # 1

\* C13: quadratic_bounding_box never divides by a zero denominator: for
\* every p0, p1, p2 and every existing box (or none), whenever
\* (p1 - p0) - (p2 - p1) is 0 on an axis the extremum step on that axis is
\* skipped rather than evaluated (p1 lies within the box of the end points
\* on that axis, which is the test that skips the step), so the call
\* completes and the returned box has four finite edges.
C13_QuadraticNoZeroDivisor ==
    qout # None =>
        LET divisor(k) == QSub(QSub(qin.p1[k], qin.p0[k]), QSub(qin.p2[k], qin.p1[k]))
            seed == IF qin.box = None
                    THEN BoundingBox(qin.p0[1], qin.p2[1], qin.p0[2], qin.p2[2])
                    ELSE extend(extend(qin.box, qin.p0), qin.p2)
            finite(x) == x.n \in Int /\ x.d \in Nat /\ x.d > 0
        IN  /\ QIsZero(divisor(1)) =>
                  QLe(seed.left, qin.p1[1]) /\ QLe(qin.p1[1], seed.right)
            /\ QIsZero(divisor(2)) =>
                  QLe(seed.bottom, qin.p1[2]) /\ QLe(qin.p1[2], seed.top)
            /\ qout.status = "return"
            /\ finite(qout.value.left) /\ finite(qout.value.right)
            /\ finite(qout.value.bottom) /\ finite(qout.value.top)

\* the call returned, with no box passed in, for control points that are
\* evenly spaced on x between two different end points (a zero divisor, on
\* the very edge-to-edge range of the box) while on y the step was taken
C13_Witness ==
    /\ qout # None /\ qout.status = "return"
    /\ qin.box = None
    /\ LET divisor(k) == QSub(QSub(qin.p1[k], qin.p0[k]), QSub(qin.p2[k], qin.p1[k]))
           seed == BoundingBox(qin.p0[1], qin.p2[1], qin.p0[2], qin.p2[2])
       IN  /\ QIsZero(divisor(1)) /\ qin.p0[1] # qin.p2[1]
           /\ ~QIsZero(divisor(2))
           /\ ~contains_y(seed, qin.p1[2])
           /\ qout.value # seed

---------------------------------------------------------------------------
(* SpecCubic: one call of cubic_bounding_box on points of the grid, with   *)
(* no box or with an existing one.                                         *)

CubicInputs ==
    {i \in [p0 : Points, p1 : Points, p2 : Points, p3 : Points,
            box : {None} \cup EdgeBoxes] :
        /\ RootIsRational(i.p0[1], i.p1[1], i.p2[1], i.p3[1])
        /\ RootIsRational(i.p0[2], i.p1[2], i.p2[2], i.p3[2])}

InitCubic ==
    /\ BoxIdle /\ CombineIdle /\ QuadIdle /\ ArcIdle /\ PathIdle
    /\ AngleIdle /\ DrawIdle
    /\ cin \in CubicInputs
    /\ cout = None

\* cout = cubic_bounding_box(p0, p1, p2, p3, box)
CallCubic ==
    /\ cin # None /\ cout = None
    /\ cout' = cubic_bounding_box(cin.p0, cin.p1, cin.p2, cin.p3, cin.box)
    /\ UNCHANGED <<self, last, abc, step, out, qin, qout, cin, ain, aout, pathvars, anglevars, drawvars>>

NextCubic == CallCubic

SpecCubic == InitCubic /\ [][NextCubic]_vars

\* the point of the cubic curve at parameter t
CubicCurvePoint(p0, p1, p2, p3, t) ==
    <<bezier(p0[1], p1[1], p2[1], p3[1], t), bezier(p0[2], p1[2], p2[2], p3[2], t)>>

\* on axis k the derivative is linear (-p0 + 3p1 - 3p2 + p3 = 0) and a
\* control point lies outside the range of the end points
DegenerateAxis(i, k) ==
    LET lo == QMin(i.p0[k], i.p3[k])
        hi == QMax(i.p0[k], i.p3[k])
    IN  /\ QIsZero(QAdd(QSub(QSub(QMul(Q(3), i.p1[k]), i.p0[k]),
                             QMul(Q(3), i.p2[k])), i.p3[k]))
        /\ \/ QLt(i.p1[k], lo) \/ QLt(hi, i.p1[k])
           \/ QLt(i.p2[k], lo) \/ QLt(hi, i.p2[k])

\* the curve value at the single candidate t = -c/b of a degenerate axis,
\* as a list: empty when b = 0 or t is not in 0 < t < 1
LinearCandidate(p0, p1, p2, p3) ==
    LET b == cubic_b(p0, p1, p2, p3)
        c == cubic_c(p0, p1, p2, p3)
    IN  IF QIsZero(b) THEN << >>
        ELSE bezier_inside(p0, p1, p2, p3, <<QDiv(QNeg(c), b)>>)

\* C9: for every cubic segment whose derivative degenerates to linear on an
\* axis while a control point lies outside the end-point range on that
\* axis, cubic_bounding_box divides by no zero: it returns a box with four
\* finite edges that contains the curve and the curve value at t = -c/b.
C9_DegenerateCubic ==
    (cout # None /\ (DegenerateAxis(cin, 1) \/ DegenerateAxis(cin, 2))) =>
        /\ cout.status = "return"
        /\ cout.value.kind = "BoundingBox"
        /\ \A t \in SampleTs :
              contains(cout.value, CubicCurvePoint(cin.p0, cin.p1, cin.p2, cin.p3, t))
        /\ DegenerateAxis(cin, 1) =>
              \A v \in {LinearCandidate(cin.p0[1], cin.p1[1], cin.p2[1], cin.p3[1])[j] :
                         j \in 1..Len(LinearCandidate(cin.p0[1], cin.p1[1], cin.p2[1], cin.p3[1]))} :
                 contains_x(cout.value, v)
        /\ DegenerateAxis(cin, 2) =>
              \A v \in {LinearCandidate(cin.p0[2], cin.p1[2], cin.p2[2], cin.p3[2])[j] :
                         j \in 1..Len(LinearCandidate(cin.p0[2], cin.p1[2], cin.p2[2], cin.p3[2]))} :
                 contains_y(cout.value, v)

---------------------------------------------------------------------------
(* SpecArc: one call of elliptical_arc_bounding_box, with no box or with   *)
(* an existing one, on arcs whose end points coincide (any radii, rotation *)
(* and flags), on arcs with a zero radius and on arcs proper.              *)

Radii == {Q(-1), Q(0), Q(1), Q(2)}
Rotations == {Q(0), Q(30), Q(90)}
Flags == {0, 1}

ArcInputs ==
    {i \in [start : Points, rx : Radii, ry : Radii, rotation : Rotations,
            large_arc : Flags, sweep : Flags, end : Points,
            box : {None} \cup EdgeBoxes] :
        i.start = i.end \/ QIsZero(i.rx) \/ QIsZero(i.ry)}

\* The arcs proper: between different points of the grid, with radii of
\* -1, 1/2, 1 and 2, a rotation of 0 or 180 degrees (its sine, cosine and
\* tangent are rational) and a rational square root on lines 400-412.  The
\* box passed in, if any, is the unit square.
ProperArcInputs ==
    LET squares(r) == IsSquare(r.n) /\ IsSquare(r.d)
        rational(m) ==
            IF QLt(m.numerator, Q(0))
            THEN squares(QSub(Q(1), QDiv(m.numerator, QMul(m.rx2, m.ry2))))
            ELSE squares(QDiv(m.numerator,
                              QAdd(QMul(m.rx2, m.ym2), QMul(m.ry2, m.xm2))))
        radii == {Q(-1), Rat(1, 2), Q(1), Q(2)}
    IN  {[start |-> g.start, rx |-> g.rx, ry |-> g.ry, rotation |-> g.rotation,
          large_arc |-> l, sweep |-> w, end |-> g.end, box |-> b] :
            g \in {g \in [start : Points, rx : radii, ry : radii,
                          rotation : {Q(0), Q(180)}, end : Points] :
                      /\ g.start # g.end
                      /\ rational(arc_numerator(g.start, g.rx, g.ry, g.rotation, g.end))},
            l \in Flags, w \in Flags,
            b \in {None, BoundingBox(Q(0), Q(1), Q(0), Q(1))}}

InitArc ==
    /\ BoxIdle /\ CombineIdle /\ QuadIdle /\ CubicIdle /\ PathIdle
    /\ AngleIdle /\ DrawIdle
    /\ ain \in ArcInputs \cup ProperArcInputs
    /\ aout = Pending

\* aout = elliptical_arc_bounding_box(start, rx, ry, rotation, large_arc,
\*                                    sweep, end, box)
CallArc ==
    /\ ain # None /\ aout = Pending
    /\ aout' = elliptical_arc_bounding_box(ain.start, ain.rx, ain.ry, ain.rotation,
                                           ain.large_arc, ain.sweep, ain.end, ain.box)
    /\ UNCHANGED <<self, last, abc, step, out, qin, qout, cin, cout, ain, pathvars, anglevars, drawvars>>

NextArc == CallArc

SpecArc == InitArc /\ [][NextArc]_vars

\* C10: for every call of elliptical_arc_bounding_box with start == end,
\* whatever the radii, rotation and flags, the value returned is the box
\* argument that was passed in, its four edges unmodified (None when no box
\* was passed).
C10_CoincidentArc ==
    (aout # Pending /\ ain.start = ain.end) => aout = Return(ain.box)

\* the call returned for coincident end points that lie outside the box
\* passed in, with two non-zero radii, a rotation and both flags set
C10_Witness ==
    /\ aout # Pending
    /\ ain.start = ain.end
    /\ ain.box # None /\ ~contains(ain.box, ain.start)
    /\ ~QIsZero(ain.rx) /\ ~QIsZero(ain.ry) /\ ~QIsZero(ain.rotation)
    /\ ain.large_arc = 1 /\ ain.sweep = 1

\* the call is one of an arc proper
ProperArc(i) == i # None /\ i.start # i.end /\ ~QIsZero(i.rx) /\ ~QIsZero(i.ry)

\* the box with the end points of the arc in it and nothing else of the arc
ArcSeed(i) ==
    IF i.box = None THEN BoundingBox(i.start[1], i.end[1], i.start[2], i.end[2])
    ELSE extend(extend(i.box, i.start), i.end)

\* The ellipse of centre (e.cx, e.cy), radii e.rx, e.ry and rotation
\* (e.cos_rotation, e.sin_rotation), as geometry.  A point of it is named by
\* its direction d, the unit vector (cos t, sin t) of its parameter t:
\* the point at d, and for a point p its direction (a unit vector exactly
\* when p is on the ellipse).
EllipsePoint(e, d) ==
    <<QAdd(e.cx, QSub(QMul(QMul(e.rx, d[1]), e.cos_rotation),
                      QMul(QMul(e.ry, d[2]), e.sin_rotation))),
      QAdd(e.cy, QAdd(QMul(QMul(e.rx, d[1]), e.sin_rotation),
                      QMul(QMul(e.ry, d[2]), e.cos_rotation)))>>
EllipseDir(e, p) ==
    LET dx == QSub(p[1], e.cx)
        dy == QSub(p[2], e.cy)
    IN  <<QDiv(QAdd(QMul(e.cos_rotation, dx), QMul(e.sin_rotation, dy)), e.rx),
          QDiv(QSub(QMul(e.cos_rotation, dy), QMul(e.sin_rotation, dx)), e.ry)>>

\* The counterclockwise turn from direction a to direction b, a value in
\* [0, 2 pi) known by its cosine and sine (a.b, a x b), and the comparison
\* of two turns: by their place at 0, in (0, pi), at pi or in (pi, 2 pi),
\* and within one place by their cross product.
Turn(a, b) ==
    <<QAdd(QMul(a[1], b[1]), QMul(a[2], b[2])), QSub(QMul(a[1], b[2]), QMul(a[2], b[1]))>>
TurnLe(g, h) ==
    LET rank(t) == IF t[2].n > 0 THEN 1
                   ELSE IF t[2].n < 0 THEN 3
                   ELSE IF t[1].n < 0 THEN 2
                   ELSE 0
    IN  \/ rank(g) < rank(h)
        \/ rank(g) = rank(h) /\ QLe(Q(0), QSub(QMul(g[1], h[2]), QMul(g[2], h[1])))

\* the arc from direction us to direction ue, counterclockwise when sweep is
\* set and clockwise when it is not, passes the direction d
Swept(us, ue, sweep, d) ==
    IF sweep # 0 THEN TurnLe(Turn(us, d), Turn(us, ue))
    ELSE TurnLe(Turn(d, us), Turn(ue, us))

\* the directions along the axes of the ellipse, and those with them at
\* which the arc is sampled
AxisDirs == {<<Q(1), Q(0)>>, <<Q(0), Q(1)>>, <<Q(-1), Q(0)>>, <<Q(0), Q(-1)>>}
SampleDirs ==
    AxisDirs \cup {<<Rat(sx * 3, 5), Rat(sy * 4, 5)>> : sx \in {-1, 1}, sy \in {-1, 1}}
             \cup {<<Rat(sx * 4, 5), Rat(sy * 3, 5)>> : sx \in {-1, 1}, sy \in {-1, 1}}

\* The x values and the y values of the extrema of the ellipse e that the
\* arc from direction us to direction ue sweeps over: of the points where
\* the derivative of x (of y) along the ellipse is zero.
SweptExtrema(e, us, ue, sweep) ==
    LET dx(d) == QAdd(QMul(QMul(e.rx, d[2]), e.cos_rotation),
                      QMul(QMul(e.ry, d[1]), e.sin_rotation))
        dy(d) == QSub(QMul(QMul(e.ry, d[1]), e.cos_rotation),
                      QMul(QMul(e.rx, d[2]), e.sin_rotation))
        swept == {d \in AxisDirs : Swept(us, ue, sweep, d)}
    IN  [x |-> {EllipsePoint(e, d)[1] : d \in {d \in swept : QIsZero(dx(d))}},
         y |-> {EllipsePoint(e, d)[2] : d \in {d \in swept : QIsZero(dy(d))}}]

\* C11: for every elliptical arc with start != end, the box returned by
\* elliptical_arc_bounding_box contains every point of the swept portion of
\* the arc, and each axis is extended only by ellipse extrema whose angle
\* lies inside the swept range, never by extrema on the unswept remainder;
\* for the quarter arc start=(1,0), end=(0,1), rx=ry=1, rotation=0,
\* largeArc=false, sweep=true the box is exactly left=0, right=1, bottom=0,
\* top=1.  The swept portion is that of the ellipse through start and end
\* with the radii given (scaled up alike by the least factor that lets them
\* reach), swept in the direction of the sweep flag over more than half a
\* turn exactly when the large-arc flag asks for it; with a zero radius it
\* is the straight line from start to end.
C11_ArcSweptBox ==
    (aout # Pending /\ ain.start # ain.end) =>
        /\ aout.status = "return"
        /\ ProperArc(ain) =>
             LET e == arc_centre(ain.start, ain.rx, ain.ry, ain.rotation,
                                 ain.large_arc, ain.sweep, ain.end)
                 us == EllipseDir(e, ain.start)
                 ue == EllipseDir(e, ain.end)
                 unit(d) == QAdd(QMul(d[1], d[1]), QMul(d[2], d[2])) = Q(1)
                 seed == ArcSeed(ain)
                 whole == IF ain.sweep # 0 THEN Turn(us, ue) ELSE Turn(ue, us)
                 half == <<Q(-1), Q(0)>>
                 xs == SweptExtrema(e, us, ue, ain.sweep).x
                 ys == SweptExtrema(e, us, ue, ain.sweep).y
             IN  /\ unit(us) /\ unit(ue)
                 /\ QMul(e.rx, QAbs(ain.ry)) = QMul(e.ry, QAbs(ain.rx))
                 /\ QLe(QAbs(ain.rx), e.rx)
                 /\ QLt(QAbs(ain.rx), e.rx) =>
                        /\ e.cx = QDiv(QAdd(ain.start[1], ain.end[1]), Q(2))
                        /\ e.cy = QDiv(QAdd(ain.start[2], ain.end[2]), Q(2))
                 /\ IF ain.large_arc # 0 THEN TurnLe(half, whole)
                    ELSE TurnLe(whole, half)
                 /\ \A d \in SampleDirs :
                        Swept(us, ue, ain.sweep, d) =>
                            contains(aout.value, EllipsePoint(e, d))
                 /\ aout.value.left = MinOf({seed.left} \cup xs)
                 /\ aout.value.right = MaxOf({seed.right} \cup xs)
                 /\ aout.value.bottom = MinOf({seed.bottom} \cup ys)
                 /\ aout.value.top = MaxOf({seed.top} \cup ys)
        /\ ~ProperArc(ain) => aout.value = ArcSeed(ain)
        /\ (/\ ain.start = <<Q(1), Q(0)>> /\ ain.end = <<Q(0), Q(1)>>
            /\ ain.rx = Q(1) /\ ain.ry = Q(1) /\ ain.rotation = Q(0)
            /\ ain.large_arc = 0 /\ ain.sweep = 1 /\ ain.box = None)
               => aout.value = BoundingBox(Q(0), Q(1), Q(0), Q(1))

\* the call returned for an arc with no box passed in, of radii that had to
\* be scaled up, that sweeps over an extremum lying outside the box of its
\* end points and leaves out an extremum lying outside the box returned
C11_Witness ==
    /\ aout # Pending /\ ProperArc(ain) /\ ain.box = None
    /\ LET e == arc_centre(ain.start, ain.rx, ain.ry, ain.rotation,
                           ain.large_arc, ain.sweep, ain.end)
           us == EllipseDir(e, ain.start)
           ue == EllipseDir(e, ain.end)
       IN  /\ QLt(QAbs(ain.rx), e.rx)
           /\ \/ \E x \in SweptExtrema(e, us, ue, ain.sweep).x :
                    ~contains_x(ArcSeed(ain), x)
              \/ \E y \in SweptExtrema(e, us, ue, ain.sweep).y :
                    ~contains_y(ArcSeed(ain), y)
           /\ \E d \in AxisDirs :
                 /\ ~Swept(us, ue, ain.sweep, d)
                 /\ ~contains(aout.value, EllipsePoint(e, d))

---------------------------------------------------------------------------
(* SpecAngle: one call of contains_angle, the helper of                    *)
(* elliptical_arc_bounding_box: either with the start_angle and end_angle  *)
(* that a call of elliptical_arc_bounding_box on an arc proper has         *)
(* computed, on one of the angles of xangles and yangles (lines 488-493),  *)
(* or with any start_angle, end_angle and t of [-pi, pi].                  *)

InitAngle ==
    /\ BoxIdle /\ CombineIdle /\ QuadIdle /\ CubicIdle /\ PathIdle /\ DrawIdle
    /\ \/ ain \in {i \in ProperArcInputs : i.box = None} /\ tin = None
       \/ /\ ain = None
          /\ LET angles == {atan2(d[2], d[1]) : d \in SampleDirs} \cup {AngNeg(pi)}
             IN  tin \in [sweep : Flags, start_angle : angles, end_angle : angles,
                          t : angles, fed : {FALSE}]
    /\ aout = Pending
    /\ tout = Pending

\* lines 488-493: the call of elliptical_arc_bounding_box comes to
\* 'if contains_angle(t)' for a t of xangles or of yangles
FeedAngle ==
    /\ ain # None /\ aout # Pending /\ tin = None
    /\ LET feed(c, a, e) ==
               \E t \in {e.xangles[1], e.xangles[2], e.yangles[1], e.yangles[2]} :
                  tin' = [sweep |-> c.sweep, start_angle |-> a.start_angle,
                          end_angle |-> a.end_angle, t |-> t, fed |-> TRUE]
           angles(c) == feed(c, arc_angles(c), extrema_angles(c.rx, c.ry, ain.rotation))
       IN  angles(arc_centre(ain.start, ain.rx, ain.ry, ain.rotation,
                             ain.large_arc, ain.sweep, ain.end))
    /\ UNCHANGED <<self, last, abc, step, out, qin, qout, cin, cout, ain, aout,
                   tout, pathvars, drawvars>>

\* tout = contains_angle(t)
CallContainsAngle ==
    /\ tin # None /\ tout = Pending
    /\ tout' = Return(contains_angle(tin.t, tin.sweep, tin.start_angle, tin.end_angle))
    /\ UNCHANGED <<self, last, abc, step, out, qin, qout, cin, cout, ain, aout,
                   tin, pathvars, drawvars>>

NextAngle == CallArc \/ FeedAngle \/ CallContainsAngle

SpecAngle == InitAngle /\ [][NextAngle]_vars

\* a lies in (-pi, pi]; a lies in [-pi, pi]
InHalfOpen(a) == AngLt(AngNeg(pi), a) /\ AngLe(a, pi)
InClosed(a) == AngLe(AngNeg(pi), a) /\ AngLe(a, pi)

\* the containment of t as the four cases give it: with sweep set and
\* start_angle < end_angle, start_angle <= t <= end_angle; with sweep set
\* and start_angle >= end_angle, not (t < start_angle and t > end_angle);
\* with sweep not set, the same with every comparison reversed
AngleCases(i) ==
    IF i.sweep # 0
    THEN IF AngLt(i.start_angle, i.end_angle)
         THEN AngLe(i.start_angle, i.t) /\ AngLe(i.t, i.end_angle)
         ELSE ~(AngLt(i.t, i.start_angle) /\ AngLt(i.end_angle, i.t))
    ELSE IF AngLt(i.end_angle, i.start_angle)
         THEN AngLe(i.t, i.start_angle) /\ AngLe(i.end_angle, i.t)
         ELSE ~(AngLt(i.start_angle, i.t) /\ AngLt(i.t, i.end_angle))

\* C14: the arc's angle containment test, for startAngle and endAngle
\* normalized into (-pi, pi] and any candidate angle t in that range,
\* branches on sweep direction: with sweep=true and startAngle < endAngle, t
\* is contained iff startAngle <= t <= endAngle; with sweep=true and
\* startAngle >= endAngle, t is contained iff NOT (t < startAngle AND
\* t > endAngle); with sweep=false the same two cases hold with every
\* comparison direction reversed; and the startAngle/endAngle that
\* elliptical_arc_bounding_box feeds to this test always lie in (-pi, pi].
C14_AngleTest ==
    /\ (/\ tout # Pending
        /\ InHalfOpen(tin.start_angle) /\ InHalfOpen(tin.end_angle)
        /\ InHalfOpen(tin.t))
           => tout.value = AngleCases(tin)
    /\ (tin # None /\ tin.fed)
           => InHalfOpen(tin.start_angle) /\ InHalfOpen(tin.end_angle)

\* C14, amended: the same four cases, for startAngle, endAngle and t in
\* [-pi, pi]; and of the angles that elliptical_arc_bounding_box feeds to
\* the test, startAngle always lies in (-pi, pi] and endAngle in [-pi, pi].
C14_AngleTestClosed ==
    /\ (/\ tout # Pending
        /\ InClosed(tin.start_angle) /\ InClosed(tin.end_angle)
        /\ InClosed(tin.t))
           => tout.value = AngleCases(tin)
    /\ (tin # None /\ tin.fed)
           => InHalfOpen(tin.start_angle) /\ InClosed(tin.end_angle)

\* the call of elliptical_arc_bounding_box fed the test an end_angle of
\* -pi, with a start_angle above it and the candidate -pi, which the test
\* found contained
C14_Witness ==
    /\ tout # Pending /\ tin.fed
    /\ tin.sweep = 0
    /\ ~AngLt(AngNeg(pi), tin.end_angle) /\ ~AngLt(tin.end_angle, AngNeg(pi))
    /\ AngLt(tin.end_angle, tin.start_angle)
    /\ ~AngLt(AngNeg(pi), tin.t) /\ ~AngLt(tin.t, AngNeg(pi))
    /\ tout.value = TRUE

---------------------------------------------------------------------------
(* path_bounding_box and object_bounding_box.                              *)
(*                                                                         *)
(* The node handed in is given by its tag, the list simplepath.parsePath   *)
(* yields for its 'd' attribute (absolute segments, the first a MoveTo)    *)
(* and the matrix simpletransform.parseTransform yields for its            *)
(* 'transform' attribute (None when there is none).  One action models one *)
(* pass of the loop over parsed[1:].                                       *)

P(x, y) == <<Q(x), Q(y)>>

\* the end points the segments of a path are drawn from
PathPoints == {P(0, 0), P(5, 0), P(5, 5)}

MoveTo(p) == [type |-> "M", point |-> p]
LineTo(p) == [type |-> "L", point |-> p]
CubicCurve(p1, p2, p3) == [type |-> "C", p1 |-> p1, p2 |-> p2, p3 |-> p3]
QuadraticCurve(p1, p2) == [type |-> "Q", p1 |-> p1, p2 |-> p2]
EllipticalArc(rx, ry, rotation, large_arc, sweep, end) ==
    [type |-> "A", rx |-> rx, ry |-> ry, rotation |-> rotation,
     large_arc |-> large_arc, sweep |-> sweep, end |-> end]
ClosePath == [type |-> "Z"]
\* a segment of a type path_bounding_box has no branch for
UnknownSegment == [type |-> "X"]

\* The segments that follow the initial MoveTo.  The cubic is one whose
\* extrema have rational parameters from every end point; the arcs have a
\* zero radius (see elliptical_arc_bounding_box above).
Segments ==
    {MoveTo(p) : p \in {P(0, 0), P(5, 5)}}
        \cup {LineTo(p) : p \in PathPoints}
        \cup {CubicCurve(P(0, 3), P(8, 8), P(5, 0))}
        \cup {QuadraticCurve(P(7, 2), P(5, 5))}
        \cup {EllipticalArc(Q(0), Q(1), Q(0), 0, 1, P(5, 0))}
        \cup {ClosePath, UnknownSegment}

\* every list of at most n segments
SegLists(n) == UNION {[1..k -> Segments] : k \in 0..n}

\* the lists parsePath yields: a MoveTo and at most MaxSegs segments
ParsedPaths ==
    {<<MoveTo(p)>> \o tail : p \in {P(0, 0), P(5, 0)}, tail \in SegLists(MaxSegs)}

\* the transform of the node: none, or x' = 2x + 1, y' = y
Transforms == {None, <<<<Q(2), Q(0), Q(1)>>, <<Q(0), Q(1), Q(0)>>>>}

\* the box the caller passes in: none, or an existing one
CallerBoxes == {None, BoundingBox(Q(1), Q(2), Q(-1), Q(1))}

\* simpletransform.applyTransformToPoint(mat, pt), as called by
\* path_bounding_box
applyTransformToPoint(mat, pt) ==
    <<QAdd(QAdd(QMul(mat[1][1], pt[1]), QMul(mat[1][2], pt[2])), mat[1][3]),
      QAdd(QAdd(QMul(mat[2][1], pt[1]), QMul(mat[2][2], pt[2])), mat[2][3])>>

\* if transform: simpletransform.applyTransformToPoint(transform, point)
Transformed(point) ==
    IF pin.transform # None THEN applyTransformToPoint(pin.transform, point)
    ELSE point

PathInputs ==
    [entry : {"path_bounding_box", "object_bounding_box"}, tag : {"path"},
     parsed : ParsedPaths, transform : Transforms, box : CallerBoxes]
        \cup [entry : {"object_bounding_box"}, tag : {"rect"},
              parsed : {<< >>}, transform : {None}, box : CallerBoxes]

InitPath ==
    /\ BoxIdle /\ CombineIdle /\ QuadIdle /\ CubicIdle /\ ArcIdle
    /\ AngleIdle /\ DrawIdle
    /\ pin \in PathInputs
    /\ cbox = pin.box
    /\ pc = "call"
    /\ idx = 0
    /\ current = None
    /\ objbox = None
    /\ pres = Pending

others == <<self, last, abc, step, out, qin, qout, cin, cout, ain, aout, anglevars,
            drawvars>>

\* path_bounding_box, lines 520-535: the starting point and the box seeded
\* with it
EnterPath ==
    /\ pc = "call"
    /\ pin.tag = "path"
    /\ LET start == Transformed(pin.parsed[1].point)
       IN  /\ current' = start
           /\ objbox' = BoundingBox(start[1], start[1], start[2], start[2])
    /\ idx' = 2
    /\ pc' = "loop"
    /\ UNCHANGED <<pin, cbox, pres, others>>

\* object_bounding_box, lines 615-616: an object that is no path
EnterOther ==
    /\ pc = "call"
    /\ pin.entry = "object_bounding_box"
    /\ pin.tag # "path"
    /\ objbox' = BoundingBox(Q(0), Q(0), Q(0), Q(0))
    /\ pc' = "objret"
    /\ UNCHANGED <<pin, cbox, idx, current, pres, others>>

\* the segment the loop is at
AtSegment(types) ==
    /\ pc = "loop"
    /\ idx <= Len(pin.parsed)
    /\ pin.parsed[idx].type \in types

\* lines 540-541: 'Z' ends the loop
SegClose ==
    /\ AtSegment({"Z"})
    /\ pc' = "ret"
    /\ UNCHANGED <<pin, cbox, idx, current, objbox, pres, others>>

\* a line step that extends the box with the point it comes from
SegLineMove_ExtendCurrent ==
    /\ AtSegment({"L", "M"})
    /\ LET point == Transformed(pin.parsed[idx].point)
       IN  /\ objbox' = extend(objbox, current)
           /\ current' = point
    /\ idx' = idx + 1
    /\ UNCHANGED <<pin, cbox, pc, pres, others>>

\* lines 544-549: 'L' or 'M'
SegLineMove ==
    /\ AtSegment({"L", "M"})
    /\ LET point == Transformed(pin.parsed[idx].point)
       IN  /\ objbox' = extend(objbox, point)
           /\ current' = point
    /\ idx' = idx + 1
    /\ UNCHANGED <<pin, cbox, pc, pres, others>>

\* the loop after a call r of a segment function that ends at point end:
\* its box becomes objbox, or its exception ends path_bounding_box
AfterSegment(r, end) ==
    IF r.status = "raise"
    THEN /\ pres' = r
         /\ pc' = "done"
         /\ UNCHANGED <<idx, current, objbox>>
    ELSE /\ objbox' = r.value
         /\ current' = end
         /\ idx' = idx + 1
         /\ UNCHANGED <<pc, pres>>

\* lines 552-561: 'C'
SegCubic ==
    /\ AtSegment({"C"})
    /\ LET p1 == Transformed(pin.parsed[idx].p1)
           p2 == Transformed(pin.parsed[idx].p2)
           p3 == Transformed(pin.parsed[idx].p3)
       IN  AfterSegment(cubic_bounding_box(current, p1, p2, p3, objbox), p3)
    /\ UNCHANGED <<pin, cbox, others>>

\* lines 564-571: 'Q'
SegQuadratic ==
    /\ AtSegment({"Q"})
    /\ LET p1 == Transformed(pin.parsed[idx].p1)
           p2 == Transformed(pin.parsed[idx].p2)
       IN  AfterSegment(quadratic_bounding_box(current, p1, p2, objbox), p2)
    /\ UNCHANGED <<pin, cbox, others>>

\* lines 574-581: 'A'
SegArc ==
    /\ AtSegment({"A"})
    /\ LET seg == pin.parsed[idx]
           end == Transformed(seg.end)
       IN  AfterSegment(elliptical_arc_bounding_box(current, seg.rx, seg.ry,
                            seg.rotation, seg.large_arc, seg.sweep, end, objbox),
                        end)
    /\ UNCHANGED <<pin, cbox, others>>

\* lines 584-585: any other type raises
SegUnknown ==
    /\ pc = "loop"
    /\ idx <= Len(pin.parsed)
    /\ pin.parsed[idx].type \notin {"Z", "L", "M", "C", "Q", "A"}
    /\ pres' = Raise("Exception")
    /\ pc' = "done"
    /\ UNCHANGED <<pin, cbox, idx, current, objbox, others>>

\* line 538: parsed[1:] is exhausted
LoopEnd ==
    /\ pc = "loop"
    /\ idx > Len(pin.parsed)
    /\ pc' = "ret"
    /\ UNCHANGED <<pin, cbox, idx, current, objbox, pres, others>>

\* The end of a function that has objbox and the caller's box:
\*     if box is None: return objbox
\*     else: return box.combine(objbox)
\* combine merges objbox into the caller's box object and returns nothing,
\* so the value returned in the second case is None.
ReturnBox ==
    IF cbox = None
    THEN /\ pres' = Return(objbox)
         /\ UNCHANGED cbox
    ELSE /\ cbox' = combine(cbox, objbox)
         /\ pres' = Return(None)

\* path_bounding_box, lines 588-591, called by the user with box
PathReturn ==
    /\ pc = "ret"
    /\ pin.entry = "path_bounding_box"
    /\ ReturnBox
    /\ pc' = "done"
    /\ UNCHANGED <<pin, idx, current, objbox, others>>

\* path_bounding_box, lines 588-589, called by object_bounding_box (line
\* 614) with no box: objbox goes back to object_bounding_box
PathReturnToObject ==
    /\ pc = "ret"
    /\ pin.entry = "object_bounding_box"
    /\ pc' = "objret"
    /\ UNCHANGED <<pin, cbox, idx, current, objbox, pres, others>>

\* object_bounding_box, lines 618-621
ObjectReturn ==
    /\ pc = "objret"
    /\ ReturnBox
    /\ pc' = "done"
    /\ UNCHANGED <<pin, idx, current, objbox, others>>

NextPath ==
    \/ EnterPath \/ EnterOther
    \/ SegClose \/ SegLineMove \/ SegCubic \/ SegQuadratic \/ SegArc \/ SegUnknown
    \/ LoopEnd
    \/ PathReturn \/ PathReturnToObject \/ ObjectReturn

SpecPath == InitPath /\ [][NextPath]_vars

\* the point a segment ends at, for the segments that have one
HasEndPoint(seg) == seg.type \in {"M", "L", "C", "Q", "A"}
EndPoint(seg) ==
    CASE seg.type \in {"M", "L"} -> seg.point
      [] seg.type = "C" -> seg.p3
      [] seg.type = "Q" -> seg.p2
      [] seg.type = "A" -> seg.end

\* C1: when the caller supplies an existing box, path_bounding_box and
\* object_bounding_box each return a BoundingBox (never an absent value)
\* whose four edges are the per-axis min/max merge of the caller's box and
\* the box computed for the path or object.
C1_ReturnsMergedBox ==
    (pc = "done" /\ pin.box # None /\ pres.status = "return") =>
        /\ pres.value # None
        /\ pres.value = combine(pin.box, objbox)

\* C2: for every segment list that holds a segment of an unrecognized kind
\* anywhere after the initial MoveTo, path_bounding_box fails with an error
\* and returns no box.
C2_UnknownKindFails ==
    (/\ pc = "done"
     /\ pin.tag = "path"
     /\ \E i \in 2..Len(pin.parsed) : pin.parsed[i].type = "X")
        => pres.status = "raise"

\* C3: the box path_bounding_box returns contains the end point of every
\* MoveTo, LineTo, curve and arc segment of the list, in every subpath:
\* segments that follow a ClosePath are folded into the box too.
C3_BoxEncompassesPath ==
    (/\ pc = "done"
     /\ pin.tag = "path"
     /\ pres.status = "return"
     /\ pres.value # None)
        => \A i \in 1..Len(pin.parsed) :
              HasEndPoint(pin.parsed[i]) =>
                  contains(pres.value, Transformed(EndPoint(pin.parsed[i])))

\* path_bounding_box was called with no box on a node with no transform
\* whose list is a MoveTo, then MoveTo/LineTo segments only, then one
\* final ClosePath
LinePath ==
    /\ pin # None
    /\ pin.entry = "path_bounding_box"
    /\ pin.box = None /\ pin.transform = None
    /\ Len(pin.parsed) >= 2
    /\ pin.parsed[Len(pin.parsed)].type = "Z"
    /\ \A i \in 2..(Len(pin.parsed) - 1) : pin.parsed[i].type \in {"M", "L"}

\* [MoveTo(0,0), LineTo(5,0), LineTo(5,5), ClosePath]
LineScenario == <<MoveTo(P(0, 0)), LineTo(P(5, 0)), LineTo(P(5, 5)), ClosePath>>

\* C4: for a path of an initial MoveTo, then only MoveTo/LineTo segments and
\* a final ClosePath, with no existing box and no transform,
\* path_bounding_box returns exactly left = min x, right = max x,
\* bottom = min y, top = max y over all points of the path (0, 5, 0, 5 for
\* [MoveTo(0,0), LineTo(5,0), LineTo(5,5), ClosePath]), and after each
\* segment the current point is that segment's point.
C4_LinePathBox ==
    LinePath =>
        LET n == Len(pin.parsed)
            xs == {pin.parsed[i].point[1] : i \in 1..(n - 1)}
            ys == {pin.parsed[i].point[2] : i \in 1..(n - 1)}
        IN  /\ pc \in {"loop", "ret"} => current = pin.parsed[idx - 1].point
            /\ pc = "done" =>
                 /\ pres.status = "return"
                 /\ pres.value.kind = "BoundingBox"
                 /\ pres.value.left = MinOf(xs) /\ pres.value.right = MaxOf(xs)
                 /\ pres.value.bottom = MinOf(ys) /\ pres.value.top = MaxOf(ys)
            /\ (pc = "done" /\ pin.parsed = LineScenario) =>
                 pres.value = BoundingBox(Q(0), Q(5), Q(0), Q(5))

\* the call on [MoveTo(0,0), LineTo(5,0), LineTo(5,5), ClosePath] has
\* returned
C4_Witness ==
    /\ LinePath
    /\ pin.parsed = LineScenario
    /\ pc = "done" /\ pres.status = "return"

---------------------------------------------------------------------------
(* draw_bounding_box.                                                      *)
(*                                                                         *)
(* obj is a node with a parent and a 'style' attribute; the parent's       *)
(* children are held in order.  The call of object_bounding_box(obj) on    *)
(* line 643 is the path call above, made with no box; when it has ended,   *)
(* DrawBoxRaised or DrawInsert takes the call to its end.                  *)

\* The nodes: Node("obj", 0) is obj, Node("boxobj", 0) the element line 651
\* creates and Node("sibling", k) the k-th other child of the parent;
\* Siblings(first, n) are the n other children that follow the first ones.
Node(node, k) == [node |-> node, k |-> k]
Siblings(first, n) == [k \in 1..n |-> Node("sibling", first + k)]

\* the first k decimals of r/d (0 <= r < d) as a whole number, and what is
\* left of r after them, by long division
RECURSIVE Decimals(_, _, _)
Decimals(r, d, k) ==
    IF k = 0 THEN [q |-> 0, r |-> r]
    ELSE LET rest == Decimals((r * 10) % d, d, k - 1)
         IN  [q |-> ((r * 10) \div d) * 10^(k - 1) + rest.q, r |-> rest.r]

\* '%f' % x: x to six decimals, rounded half to even
FormatF(x) ==
    LET whole == x.n \div x.d
        dec == Decimals(x.n % x.d, x.d, 6)
        q == whole * 1000000 + dec.q
        up == 2 * dec.r > x.d \/ (2 * dec.r = x.d /\ q % 2 = 1)
    IN  Rat(IF up THEN q + 1 ELSE q, 1000000)

\* The call: of an object that is a path of a MoveTo and at most one more
\* segment, with or without a transform, or that is no path; with a style
\* given or not, to replace or not; obj has a style and up to MaxSiblings
\* children of the parent before it and after it.
InitDraw ==
    /\ BoxIdle /\ CombineIdle /\ QuadIdle /\ CubicIdle /\ ArcIdle /\ AngleIdle
    /\ din \in [style : {None, [kind |-> "str", value |-> "stroke:red"]},
                replace : BOOLEAN,
                objstyle : {[kind |-> "str", value |-> "fill:none"]},
                before : 0..MaxSiblings, after : 0..MaxSiblings]
    /\ parent = Siblings(0, din.before) \o <<Node("obj", 0)>>
                    \o Siblings(din.before, din.after)
    /\ boxobj = None
    /\ dpc = "box"
    /\ dout = Pending
    /\ pin \in [entry : {"object_bounding_box"}, tag : {"path"},
                parsed : {<<MoveTo(P(0, 0))>> \o tail : tail \in SegLists(1)},
                transform : Transforms, box : {None}]
                   \cup [entry : {"object_bounding_box"}, tag : {"rect"},
                         parsed : {<< >>}, transform : {None}, box : {None}]
    /\ cbox = None
    /\ pc = "call"
    /\ idx = 0
    /\ current = None
    /\ objbox = None
    /\ pres = Pending

\* line 643: object_bounding_box(obj) raised, and so does draw_bounding_box
DrawBoxRaised ==
    /\ dpc = "box" /\ pc = "done" /\ pres.status = "raise"
    /\ dout' = pres
    /\ dpc' = "done"
    /\ UNCHANGED <<self, last, abc, step, out, qin, qout, cin, cout, ain, aout,
                   pathvars, anglevars, din, parent, boxobj>>

\* lines 638-663, object_bounding_box(obj) having returned box: the new
\* node with its style and path data, its insertion after obj, and with
\* replace the statement parent.remove(node), which names a variable that
\* is assigned nowhere in the function or the module
DrawInsert ==
    /\ dpc = "box" /\ pc = "done" /\ pres.status = "return"
    /\ LET style == IF din.style = None THEN din.objstyle ELSE din.style
           box == pres.value
       IN  /\ boxobj' = [tag |-> "path", style |-> style,
                         d |-> <<FormatF(box.left), FormatF(box.bottom),
                                 FormatF(box.right), FormatF(box.bottom),
                                 FormatF(box.right), FormatF(box.top),
                                 FormatF(box.left), FormatF(box.top)>>]
           /\ LET index == (CHOOSE i \in 1..Len(parent) :
                                /\ parent[i] = Node("obj", 0)
                                /\ \A j \in 1..(i - 1) : parent[j] # Node("obj", 0)) - 1
              IN  parent' = SubSeq(parent, 1, index + 1)
                               \o <<Node("boxobj", 0)>>
                               \o SubSeq(parent, index + 2, Len(parent))
    /\ dout' = IF din.replace THEN Raise("NameError") ELSE Return(None)
    /\ dpc' = "done"
    /\ UNCHANGED <<self, last, abc, step, out, qin, qout, cin, cout, ain, aout,
                   pathvars, anglevars, din>>

NextDraw ==
    \/ EnterPath \/ EnterOther
    \/ SegClose \/ SegLineMove \/ SegCubic \/ SegQuadratic \/ SegArc \/ SegUnknown
    \/ LoopEnd
    \/ PathReturnToObject \/ ObjectReturn
    \/ DrawBoxRaised \/ DrawInsert

SpecDraw == InitDraw /\ [][NextDraw]_vars

\* C12: draw_bounding_box(obj, replace=True) completes and leaves the parent
\* with the bounding-box path element in place of obj (obj removed, box
\* element inserted at obj's former position); with replace=False obj stays
\* and the box element is inserted immediately after it; in both cases no
\* other child of the parent is added, removed or reordered.  (Stated of
\* the calls in which the bounding box of obj is computed.)
C12_DrawFrame ==
    (dpc = "done" /\ pres.status = "return") =>
        /\ dout.status = "return"
        /\ parent = IF din.replace
                    THEN Siblings(0, din.before) \o <<Node("boxobj", 0)>>
                            \o Siblings(din.before, din.after)
                    ELSE Siblings(0, din.before)
                            \o <<Node("obj", 0), Node("boxobj", 0)>>
                            \o Siblings(din.before, din.after)

====
